---- MODULE Spec2Model ----
(***************************************************************************)
(* A model of src/main.rs: the parallel chunked scan-and-aggregate engine. *)
(*                                                                         *)
(* Bytes are their ASCII codes.  An f64 is held as an exact number of      *)
(* tenths (every f64 the program stores is a whole number of units far     *)
(* below 2^53, so its arithmetic on them is exact).  usize is modelled at  *)
(* the width UsizeModulus, since TLC's integers are 32 bits wide: every    *)
(* file position of the model is far below it, so a wrapped subtraction    *)
(* yields, as at 2^64, a value above every position.                       *)
(***************************************************************************)
EXTENDS Integers, Sequences, FiniteSets, TLC

\* ---------------------------------------------------------------- bounds
MaxThreads == 2
MaxLines == 4

\* ------------------------------------------------------ program constants
NL == 10
Semi == 59
Minus == 45
Dot == 46
Zero == 48
Window == 64
U8Modulus == 2^8
UsizeModulus == 2^30

Minimum(S) == CHOOSE x \in S : \A y \in S : x <= y
Maximum(S) == CHOOSE x \in S : \A y \in S : x >= y
Min2(a, b) == IF a <= b THEN a ELSE b
Max2(a, b) == IF a >= b THEN a ELSE b

\* usize subtraction with overflow checks off (release build): wraps.
WrappingSub(a, b) == IF a >= b THEN a - b ELSE a - b + UsizeModulus

Panicked(why) == [ok |-> FALSE, why |-> why]

\* -------------------------------------------------------------- the input
\* The lines a measurements.txt is made of here: two short rows of one key
\* with different values, and one row of the greatest length the boundary
\* resolver assumes (63 bytes before its newline).
KeyA == <<97>>
KeyC == [i \in 1..58 |-> 99]
LineKinds ==
    { KeyA \o <<Semi, 49, Dot, 53>>,
      KeyA \o <<Semi, Minus, 57, 57, Dot, 57>>,
      KeyC \o <<Semi, 49, 50, Dot, 51>> }

RECURSIVE FileOf(_)
FileOf(ls) == IF ls = <<>> THEN <<>> ELSE Head(ls) \o <<NL>> \o FileOf(Tail(ls))

Files == { FileOf(ls) : ls \in UNION { [1..n -> LineKinds] : n \in 0..MaxLines } }

\* ------------------------------------------------------------ Record
EmptyMap == <<>>

Record_new(measurement) ==
    [count |-> 1, min |-> measurement, max |-> measurement, sum |-> measurement]

\* An update with the two bounds taken the wrong way round.
Record_update_BoundsSwapped(r, measurement) ==
    [count |-> r.count + 1,
     min |-> Max2(r.min, measurement),
     max |-> Min2(r.max, measurement),
     sum |-> r.sum + measurement]

Record_update(r, measurement) ==
    [count |-> r.count + 1,
     min |-> Min2(r.min, measurement),
     max |-> Max2(r.max, measurement),
     sum |-> r.sum + measurement]

\* A merge that takes the other record's bounds instead of combining them.
Record_merge_TakesOther(r, other) ==
    [count |-> r.count + other.count,
     min |-> other.min,
     max |-> other.max,
     sum |-> r.sum + other.sum]

Record_merge(r, other) ==
    [count |-> r.count + other.count,
     min |-> Min2(r.min, other.min),
     max |-> Max2(r.max, other.max),
     sum |-> r.sum + other.sum]

\* ------------------------------------------------------------ parse_float
\* x[i] - b'0' in u8: the wrapped digit, and whether the subtraction overflows.
Digit(x, i) == (x[i] - Zero) % U8Modulus
DigitOverflows(x, i) == x[i] < Zero

\* i64 division truncates toward zero.
TruncDiv(a, b) == IF a >= 0 THEN a \div b ELSE -((-a) \div b)

\* A parse_float whose match has a default arm yielding zero digits instead
\* of unreachable!().
parse_float_DefaultArm(x, checks) ==
    IF Len(x) = 0 THEN Panicked("index out of bounds")
    ELSE
    LET neg == (x[1] = Minus)
        len == Len(x)
        idx == IF ~neg /\ len = 3 THEN <<0, 1, 3>>
               ELSE IF ~neg /\ len = 4 THEN <<1, 2, 4>>
               ELSE IF neg /\ len = 4 THEN <<0, 2, 4>>
               ELSE IF neg /\ len = 5 THEN <<2, 3, 5>>
               ELSE <<>>
    IN  IF idx = <<>> THEN [ok |-> TRUE, val |-> 0]
        ELSE IF checks /\ \E k \in 1..3 : idx[k] # 0 /\ DigitOverflows(x, idx[k])
        THEN Panicked("attempt to subtract with overflow")
        ELSE
        LET d1 == IF idx[1] = 0 THEN 0 ELSE Digit(x, idx[1])
            d2 == Digit(x, idx[2])
            d3 == Digit(x, idx[3])
            int == (d1 * 100) + (d2 * 10) + d3
            sint == IF neg THEN -int ELSE int
        IN  [ok |-> TRUE, val |-> TruncDiv(sint, 10) * 10]

\* The value, in tenths, of the f64 that parse_float returns.
parse_float(x, checks) ==
    IF Len(x) = 0 THEN Panicked("index out of bounds")
    ELSE
    LET neg == (x[1] = Minus)
        len == Len(x)
        idx == IF ~neg /\ len = 3 THEN <<0, 1, 3>>
               ELSE IF ~neg /\ len = 4 THEN <<1, 2, 4>>
               ELSE IF neg /\ len = 4 THEN <<0, 2, 4>>
               ELSE IF neg /\ len = 5 THEN <<2, 3, 5>>
               ELSE <<>>
    IN  IF idx = <<>> THEN Panicked("unreachable")
        ELSE IF checks /\ \E k \in 1..3 : idx[k] # 0 /\ DigitOverflows(x, idx[k])
        THEN Panicked("attempt to subtract with overflow")
        ELSE
        LET d1 == IF idx[1] = 0 THEN 0 ELSE Digit(x, idx[1])
            d2 == Digit(x, idx[2])
            d3 == Digit(x, idx[3])
            int == (d1 * 100) + (d2 * 10) + d3
            sint == IF neg THEN -int ELSE int
        IN  [ok |-> TRUE, val |-> TruncDiv(sint, 10) * 10]

\* ------------------------------------------------------------ parse_row
RECURSIVE split(_, _)
split(s, sep) ==
    LET hits == {i \in 1..Len(s) : s[i] = sep}
    IN  IF hits = {} THEN <<s>>
        ELSE LET i == Minimum(hits)
             IN  <<SubSeq(s, 1, i - 1)>> \o split(SubSeq(s, i + 1, Len(s)), sep)

parse_row(data, checks) ==
    LET pieces == split(data, Semi)
    IN  IF Len(pieces) < 2 THEN Panicked("unwrap on None")
        ELSE LET m == parse_float(pieces[2], checks)
             IN  IF ~m.ok THEN m
                 ELSE [ok |-> TRUE, city |-> pieces[1], measurement |-> m.val]

\* ------------------------------------------------------------ read_file_chunk
\* File::read_exact_at: an empty buffer is filled at once; otherwise every
\* byte of [file_i, file_i + buf_size) must exist.
ReadExactOk(fsize, file_i, buf_size) ==
    buf_size = 0 \/ (file_i <= fsize /\ buf_size <= fsize - file_i)

\* trim head: the first newline among the first bytes_excess bytes.
trim_head(buf, lo, bytes_excess) ==
    LET hits == {i \in 0..(Min2(bytes_excess, Len(buf)) - 1) : buf[i + 1] = NL}
    IN  IF hits # {}
        THEN LET i == Minimum(hits)
             IN  [ok |-> TRUE, buf |-> SubSeq(buf, i + 2, Len(buf)), lo |-> lo + i + 1]
        ELSE IF bytes_excess > Len(buf) THEN Panicked("index out of bounds")
        ELSE [ok |-> TRUE, buf |-> buf, lo |-> lo]

\* A tail scan that finds the newline but leaves the buffer as it is.
trim_tail_NoTruncate(buf, lo, checks) ==
    LET tail_i == WrappingSub(Len(buf), 1)
        from == WrappingSub(tail_i, Window)
    IN  IF checks /\ (Len(buf) < 1 \/ tail_i < Window)
        THEN Panicked("attempt to subtract with overflow")
        ELSE IF from >= tail_i THEN [ok |-> TRUE, buf |-> buf, lo |-> lo]
        ELSE IF tail_i - 1 >= Len(buf) THEN Panicked("index out of bounds")
        ELSE [ok |-> TRUE, buf |-> buf, lo |-> lo]

\* trim tail: the last newline among the 64 bytes before the last byte.
trim_tail(buf, lo, checks) ==
    LET tail_i == WrappingSub(Len(buf), 1)
        from == WrappingSub(tail_i, Window)
    IN  IF checks /\ (Len(buf) < 1 \/ tail_i < Window)
        THEN Panicked("attempt to subtract with overflow")
        ELSE IF from >= tail_i THEN [ok |-> TRUE, buf |-> buf, lo |-> lo]
        ELSE IF tail_i - 1 >= Len(buf) THEN Panicked("index out of bounds")
        ELSE LET hits == {i \in from..(tail_i - 1) : buf[i + 1] = NL}
             IN  IF hits = {} THEN [ok |-> TRUE, buf |-> buf, lo |-> lo]
                 ELSE [ok |-> TRUE, buf |-> SubSeq(buf, 1, Maximum(hits)), lo |-> lo]

\* lines 152-160: where the positional read starts, how many bytes it asks
\* for, and how many of them lie before the nominal offset.
read_plan(fsize, csize, off, checks) ==
    IF off = 0
    THEN [ok |-> TRUE, file_i |-> off, buf_size |-> csize, bytes_excess |-> 0]
    ELSE IF checks /\ off < Window
    THEN Panicked("attempt to subtract with overflow")
    ELSE [ok |-> TRUE,
          file_i |-> WrappingSub(off, Window),
          buf_size |-> Min2(csize + Window, fsize - off),
          bytes_excess |-> Window]

\* The buffer returned, and (lo) the file position of its first byte.
read_file_chunk(f, fsize, csize, off, checks) ==
    LET plan == read_plan(fsize, csize, off, checks)
    IN  IF ~plan.ok THEN plan
        ELSE IF ~ReadExactOk(fsize, plan.file_i, plan.buf_size)
        THEN Panicked("read_exact_at")
        ELSE LET head == trim_head(SubSeq(f, plan.file_i + 1, plan.file_i + plan.buf_size),
                                   plan.file_i, plan.bytes_excess)
             IN  IF ~head.ok THEN head ELSE trim_tail(head.buf, head.lo, checks)

\* ------------------------------------------------------------ parse_chunk
\* entry(city).and_modify(update).or_insert(Record::new)
Upsert(m, city, measurement) ==
    IF city \in DOMAIN m
    THEN [m EXCEPT ![city] = Record_update(m[city], measurement)]
    ELSE m @@ (city :> Record_new(measurement))

RECURSIVE fold_lines(_, _, _)
fold_lines(ls, m, checks) ==
    IF ls = <<>> THEN [ok |-> TRUE, map |-> m]
    ELSE LET row == parse_row(Head(ls), checks)
         IN  IF ~row.ok THEN row
             ELSE fold_lines(Tail(ls), Upsert(m, row.city, row.measurement), checks)

\* lines 189-198: the local map of a resolved buffer.
scan_chunk(buf, checks) == fold_lines(split(buf, NL), EmptyMap, checks)

\* lines 202-204: entry(city).and_modify(merge).or_insert(record)
MergeEntry(m, city, record) ==
    IF city \in DOMAIN m
    THEN [m EXCEPT ![city] = Record_merge(m[city], record)]
    ELSE m @@ (city :> record)

\* String::from_utf8_lossy(city).to_string(): a byte below 128 is its own
\* char; the keys of the model are ASCII.
from_utf8_lossy(city) == [i \in DOMAIN city |-> IF city[i] < 128 THEN city[i] ELSE 65533]

\* ------------------------------------------------------------ the report
RECURSIVE DecDigits(_)
DecDigits(n) == IF n < 10 THEN <<Zero + n>> ELSE DecDigits(n \div 10) \o <<Zero + (n % 10)>>

\* format!("{:.1}", v) of the f64 v = num/den tenths: the nearest tenth, a tie
\* (only x.25 and x.75 are ties an f64 holds exactly) to the even digit; the
\* sign is printed for every negative v, also one that rounds to zero.
Fmt1(num, den) ==
    LET a == IF num < 0 THEN -num ELSE num
        q == a \div den
        r == a % den
        up == (2 * r > den) \/ (2 * r = den /\ q % 2 = 1)
        t == IF up THEN q + 1 ELSE q
    IN  (IF num < 0 THEN <<Minus>> ELSE <<>>) \o DecDigits(t \div 10) \o <<Dot, Zero + (t % 10)>>

\* byte-wise order of two strings (Ord for String)
RECURSIVE LexLess(_, _)
LexLess(a, b) ==
    IF a = <<>> THEN b # <<>>
    ELSE IF b = <<>> THEN FALSE
    ELSE IF Head(a) # Head(b) THEN Head(a) < Head(b)
    ELSE LexLess(Tail(a), Tail(b))

\* A sort with the comparison reversed: the cities in descending order.
RECURSIVE SortedCities_Descending(_)
SortedCities_Descending(S) ==
    IF S = {} THEN <<>>
    ELSE LET c == CHOOSE x \in S : \A y \in S \ {x} : LexLess(y, x)
         IN  <<c>> \o SortedCities_Descending(S \ {c})

\* cities.sort_unstable()
RECURSIVE SortedCities(_)
SortedCities(S) ==
    IF S = {} THEN <<>>
    ELSE LET c == CHOOSE x \in S : \A y \in S \ {x} : LexLess(x, y)
         IN  <<c>> \o SortedCities(S \ {c})

\* println!("{}={:.1}/{:.1}/{:.1}", city, min, mean, max)
ReportLine(city, r) ==
    [city |-> city, min |-> Fmt1(r.min, 1), mean |-> Fmt1(r.sum, r.count), max |-> Fmt1(r.max, 1)]

\* ------------------------------------------------------------------ state
VARIABLES
    file,            \* the bytes of measurements.txt
    file_size,       \* main: file.metadata().len()
    chunk_size,      \* main: file_size / thread_count
    thread_count,    \* main: available_parallelism()
    overflow_checks, \* the build: TRUE panics on integer overflow, FALSE wraps
    offset,          \* the shared AtomicUsize
    outer_map,       \* the shared map behind the Mutex
    lock,            \* the Mutex: 0 when free, else the worker holding it
    pc,              \* each worker's position in its closure
    my_offset,       \* each worker's offset, as fetch_add returned it
    read_req,        \* each worker's read_exact_at call: <<file_i, buf_size>>
    buf,             \* each worker's resolved buffer
    buf_lo,          \* the file position of buf's first byte
    local_map,       \* each worker's local map
    pc_main,         \* the main thread's position
    out,             \* the lines printed so far
    pf               \* parse_float on its own: input, result, rendering

vars == <<file, file_size, chunk_size, thread_count, overflow_checks, offset,
          outer_map, lock, pc, my_offset, read_req, buf, buf_lo, local_map, pc_main, out,
          pf>>

Workers == 1..thread_count

\* main, lines 208-221: the file is open, its size and the chunk size are
\* known, the cursor and the shared map are new, every worker is spawned.
Init ==
    /\ file \in Files
    /\ thread_count \in 1..MaxThreads
    /\ overflow_checks \in BOOLEAN
    /\ file_size = Len(file)
    /\ chunk_size = file_size \div thread_count
    /\ offset = 0
    /\ outer_map = EmptyMap
    /\ lock = 0
    /\ pc = [w \in Workers |-> "spawned"]
    /\ my_offset = [w \in Workers |-> 0]
    /\ read_req = [w \in Workers |-> <<>>]
    /\ buf = [w \in Workers |-> <<>>]
    /\ buf_lo = [w \in Workers |-> 0]
    /\ local_map = [w \in Workers |-> EmptyMap]
    /\ pc_main = "scope"
    /\ out = <<>>
    /\ pf = [pc |-> "idle"]

\* The cursor read with a load: the worker's offset is taken, nothing is added.
FetchAdd_LoadOnly(w) ==
    /\ pc[w] = "spawned"
    /\ my_offset' = [my_offset EXCEPT ![w] = offset]
    /\ pc' = [pc EXCEPT ![w] = "claimed"]
    /\ UNCHANGED <<file, file_size, chunk_size, thread_count, overflow_checks, offset,
                   outer_map, lock, read_req, buf, buf_lo, local_map, pc_main, out, pf>>

\* line 222: offset.fetch_add(chunk_size, SeqCst)
FetchAdd(w) ==
    /\ pc[w] = "spawned"
    /\ my_offset' = [my_offset EXCEPT ![w] = offset]
    /\ offset' = (offset + chunk_size) % UsizeModulus
    /\ pc' = [pc EXCEPT ![w] = "claimed"]
    /\ UNCHANGED <<file, file_size, chunk_size, thread_count, overflow_checks,
                   outer_map, lock, read_req, buf, buf_lo, local_map, pc_main, out, pf>>

\* line 190: read_file_chunk; a panic ends the worker.
ReadChunk(w) ==
    /\ pc[w] = "claimed"
    /\ LET plan == read_plan(file_size, chunk_size, my_offset[w], overflow_checks)
           r == read_file_chunk(file, file_size, chunk_size, my_offset[w], overflow_checks)
       IN  /\ read_req' = [read_req EXCEPT
                              ![w] = IF plan.ok THEN <<plan.file_i, plan.buf_size>> ELSE <<>>]
           /\ IF r.ok
              THEN /\ buf' = [buf EXCEPT ![w] = r.buf]
                   /\ buf_lo' = [buf_lo EXCEPT ![w] = r.lo]
                   /\ pc' = [pc EXCEPT ![w] = "read"]
              ELSE /\ pc' = [pc EXCEPT ![w] = "panicked"]
                   /\ UNCHANGED <<buf, buf_lo>>
    /\ UNCHANGED <<file, file_size, chunk_size, thread_count, overflow_checks, offset,
                   outer_map, lock, my_offset, local_map, pc_main, out, pf>>

\* lines 191-198: the scan of the buffer into the local map.
ScanChunk(w) ==
    /\ pc[w] = "read"
    /\ LET r == scan_chunk(buf[w], overflow_checks)
       IN  IF r.ok
           THEN /\ local_map' = [local_map EXCEPT ![w] = r.map]
                /\ pc' = [pc EXCEPT ![w] = "scanned"]
           ELSE /\ pc' = [pc EXCEPT ![w] = "panicked"]
                /\ UNCHANGED local_map
    /\ UNCHANGED <<file, file_size, chunk_size, thread_count, overflow_checks, offset,
                   outer_map, lock, my_offset, read_req, buf, buf_lo, pc_main, out, pf>>

\* A lock that is taken without waiting for its holder to release it.
Lock_NoWait(w) ==
    /\ pc[w] = "scanned"
    /\ lock' = w
    /\ pc' = [pc EXCEPT ![w] = "merging"]
    /\ UNCHANGED <<file, file_size, chunk_size, thread_count, overflow_checks, offset,
                   outer_map, my_offset, read_req, buf, buf_lo, local_map, pc_main, out, pf>>

\* line 199: outer_map.lock()
Lock(w) ==
    /\ pc[w] = "scanned"
    /\ lock = 0
    /\ lock' = w
    /\ pc' = [pc EXCEPT ![w] = "merging"]
    /\ UNCHANGED <<file, file_size, chunk_size, thread_count, overflow_checks, offset,
                   outer_map, my_offset, read_req, buf, buf_lo, local_map, pc_main, out, pf>>

\* lines 200-205: one turn of the fold loop; into_iter yields the entries
\* of the local map in the hash map's order, which is any order.
MergeOne(w) ==
    /\ pc[w] = "merging"
    /\ \E city \in DOMAIN local_map[w] :
          /\ outer_map' = MergeEntry(outer_map, from_utf8_lossy(city), local_map[w][city])
          /\ local_map' = [local_map EXCEPT
                              ![w] = [c \in (DOMAIN local_map[w]) \ {city} |-> local_map[w][c]]]
    /\ UNCHANGED <<file, file_size, chunk_size, thread_count, overflow_checks, offset,
                   lock, pc, my_offset, read_req, buf, buf_lo, pc_main, out, pf>>

\* line 206: the guard is dropped at the end of parse_chunk.
Unlock(w) ==
    /\ pc[w] = "merging"
    /\ DOMAIN local_map[w] = {}
    /\ lock' = 0
    /\ pc' = [pc EXCEPT ![w] = "done"]
    /\ UNCHANGED <<file, file_size, chunk_size, thread_count, overflow_checks, offset,
                   outer_map, my_offset, read_req, buf, buf_lo, local_map, pc_main, out, pf>>

\* A join that drops the workers' results: main goes on to the report.
Join_IgnoresPanics ==
    /\ pc_main = "scope"
    /\ \A w \in Workers : pc[w] \in {"done", "panicked"}
    /\ pc_main' = "report"
    /\ UNCHANGED <<file, file_size, chunk_size, thread_count, overflow_checks, offset,
                   outer_map, lock, pc, my_offset, read_req, buf, buf_lo, local_map, out, pf>>

\* A join that returns as soon as one worker has ended.
Join_FirstWorkerOnly ==
    /\ pc_main = "scope"
    /\ \E w \in Workers : pc[w] \in {"done", "panicked"}
    /\ pc_main' = IF \E w \in Workers : pc[w] = "panicked" THEN "panicked" ELSE "report"
    /\ UNCHANGED <<file, file_size, chunk_size, thread_count, overflow_checks, offset,
                   outer_map, lock, pc, my_offset, read_req, buf, buf_lo, local_map, out, pf>>

\* line 226: thread::scope returns when every worker has ended, and panics
\* itself if one of them panicked.
Join ==
    /\ pc_main = "scope"
    /\ \A w \in Workers : pc[w] \in {"done", "panicked"}
    /\ pc_main' = IF \E w \in Workers : pc[w] = "panicked" THEN "panicked" ELSE "report"
    /\ UNCHANGED <<file, file_size, chunk_size, thread_count, overflow_checks, offset,
                   outer_map, lock, pc, my_offset, read_req, buf, buf_lo, local_map, out, pf>>

\* lines 229-237: the next line of the report, in sorted order.
PrintLine ==
    /\ pc_main = "report"
    /\ LET cities == SortedCities(DOMAIN outer_map)
       IN  /\ Len(out) < Len(cities)
           /\ out' = Append(out, ReportLine(cities[Len(out) + 1],
                                            outer_map[cities[Len(out) + 1]]))
    /\ UNCHANGED <<file, file_size, chunk_size, thread_count, overflow_checks, offset,
                   outer_map, lock, pc, my_offset, read_req, buf, buf_lo, local_map, pc_main, pf>>

\* line 238: main returns.
Exit ==
    /\ pc_main = "report"
    /\ Len(out) = Cardinality(DOMAIN outer_map)
    /\ pc_main' = "exit"
    /\ UNCHANGED <<file, file_size, chunk_size, thread_count, overflow_checks, offset,
                   outer_map, lock, pc, my_offset, read_req, buf, buf_lo, local_map, out, pf>>

Next ==
    \/ \E w \in Workers : FetchAdd(w)
    \/ \E w \in Workers : ReadChunk(w)
    \/ \E w \in Workers : ScanChunk(w)
    \/ \E w \in Workers : Lock(w)
    \/ \E w \in Workers : MergeOne(w)
    \/ \E w \in Workers : Unlock(w)
    \/ Join
    \/ PrintLine
    \/ Exit

Spec == Init /\ [][Next]_vars

\* ------------------------------------------------ parse_float on its own
\* Every text of the supported format: an optional minus, one or two integer
\* digits, a point, one fractional digit ("-0.0" is no value of its own).
ValueTexts ==
    { sign \o DecDigits(n) \o <<Dot, Zero + d>> :
        sign \in {<<>>, <<Minus>>}, n \in 0..99, d \in 0..9 } \ { <<Minus, Zero, Dot, Zero>> }

InitParse ==
    /\ pf \in { [pc |-> "input", x |-> x] : x \in ValueTexts }
    /\ overflow_checks \in BOOLEAN
    /\ file = <<>>
    /\ thread_count = 0
    /\ file_size = 0
    /\ chunk_size = 0
    /\ offset = 0
    /\ outer_map = EmptyMap
    /\ lock = 0
    /\ pc = <<>>
    /\ my_offset = <<>>
    /\ read_req = <<>>
    /\ buf = <<>>
    /\ buf_lo = <<>>
    /\ local_map = <<>>
    /\ pc_main = "exit"
    /\ out = <<>>

\* line 146: parse_float(measurement)
ParseValue ==
    /\ pf.pc = "input"
    /\ pf' = [pc |-> "parsed", x |-> pf.x, r |-> parse_float(pf.x, overflow_checks)]
    /\ UNCHANGED <<file, file_size, chunk_size, thread_count, overflow_checks, offset,
                   outer_map, lock, pc, my_offset, read_req, buf, buf_lo, local_map,
                   pc_main, out>>

\* line 236: the value rendered with {:.1}
RenderValue ==
    /\ pf.pc = "parsed"
    /\ pf.r.ok
    /\ pf' = [pc |-> "rendered", x |-> pf.x, r |-> pf.r, txt |-> Fmt1(pf.r.val, 1)]
    /\ UNCHANGED <<file, file_size, chunk_size, thread_count, overflow_checks, offset,
                   outer_map, lock, pc, my_offset, read_req, buf, buf_lo, local_map,
                   pc_main, out>>

NextParse == ParseValue \/ RenderValue

SpecParse == InitParse /\ [][NextParse]_vars

\* ------------------------------------------------------- notions of the claims
\* The positions (from 0) of the file's newlines, and its lines: <<s, e>> is
\* the line of bytes s .. e-1 whose newline is at e.
NewlinePos == {i \in 0..(file_size - 1) : file[i + 1] = NL}

LineStart(p) ==
    LET before == {q \in NewlinePos : q < p}
    IN  IF before = {} THEN 0 ELSE Maximum(before) + 1

FileLines == { <<LineStart(p), p>> : p \in NewlinePos }

\* read_file_chunk has returned worker w its buffer.
HasBuffer(w) == pc[w] \in {"read", "scanned", "merging", "done"}

\* The line lies inside worker w's resolved buffer.
Covers(w, line) ==
    /\ HasBuffer(w)
    /\ buf_lo[w] <= line[1]
    /\ line[2] <= buf_lo[w] + Len(buf[w])

AllResolved == \A w \in Workers : HasBuffer(w)
AllDone == Workers # {} /\ \A w \in Workers : pc[w] = "done"
Claimed == {w \in Workers : pc[w] # "spawned"}

\* The value a text of the format writes, in tenths: sign * (100*d1 + 10*d2 + d3).
TextTenths(x) ==
    LET neg == (x[1] = Minus)
        body == IF neg THEN Tail(x) ELSE x
        n == Len(body)
        d1 == IF n = 4 THEN body[1] - Zero ELSE 0
        d2 == body[n - 2] - Zero
        d3 == body[n] - Zero
        v == 100 * d1 + 10 * d2 + d3
    IN  IF neg THEN -v ELSE v

\* The key and the written value of a well-formed line.
LineKey(l) == SubSeq(l, 1, Minimum({i \in 1..Len(l) : l[i] = Semi}) - 1)
LineValue(l) == TextTenths(SubSeq(l, Minimum({i \in 1..Len(l) : l[i] = Semi}) + 1, Len(l)))

RECURSIVE SumOver(_, _)
SumOver(ls, I) ==
    IF I = {} THEN 0
    ELSE LET i == CHOOSE j \in I : TRUE IN LineValue(ls[i]) + SumOver(ls, I \ {i})

\* What the lines of a buffer say about each key.
WrittenMap(b) ==
    LET ls == split(b, NL)
        keys == {LineKey(ls[i]) : i \in 1..Len(ls)}
        of(c) == {i \in 1..Len(ls) : LineKey(ls[i]) = c}
    IN  [c \in keys |->
            [count |-> Cardinality(of(c)),
             min |-> Minimum({LineValue(ls[i]) : i \in of(c)}),
             max |-> Maximum({LineValue(ls[i]) : i \in of(c)}),
             sum |-> SumOver(ls, of(c))]]

\* The local map of the chunk at offset off, as one worker alone computes it.
ChunkScan(csize, off) ==
    LET r == read_file_chunk(file, file_size, csize, off, overflow_checks)
    IN  IF r.ok THEN scan_chunk(r.buf, overflow_checks) ELSE r

\* A whole local map folded into m.
RECURSIVE MergeMap(_, _)
MergeMap(m, local) ==
    IF DOMAIN local = {} THEN m
    ELSE LET c == CHOOSE x \in DOMAIN local : TRUE
         IN  MergeMap(MergeEntry(m, from_utf8_lossy(c), local[c]),
                      [x \in (DOMAIN local) \ {c} |-> local[x]])

\* The first k chunks merged one after the other in the order of their offsets.
RECURSIVE MergedInOffsetOrder(_)
MergedInOffsetOrder(k) ==
    IF k = 0 THEN EmptyMap
    ELSE MergeMap(MergedInOffsetOrder(k - 1), ChunkScan(chunk_size, (k - 1) * chunk_size).map)

\* ---------------------------------------------------------------- the claims

\* C1: when every worker holds its resolved buffer, every line of the file
\* lies inside the buffer of at least one worker (no line is dropped).
NoLineDropped ==
    AllResolved => \A l \in FileLines : \E w \in Workers : Covers(w, l)

\* C2: no line of the file lies inside the resolved buffers of two workers
\* that hold different chunks (no line is duplicated).
NoLineDuplicated ==
    \A w1 \in Workers : \A w2 \in Workers :
        (w1 # w2 /\ my_offset[w1] # my_offset[w2])
            => \A l \in FileLines : ~(Covers(w1, l) /\ Covers(w2, l))

\* C3: once every worker has merged, the shared map is the one that merging
\* the chunks in the order of their offsets gives, whichever worker took
\* which offset and in whatever order the workers took the lock.
InterleavingIndependence ==
    AllDone => outer_map = MergedInOffsetOrder(thread_count)

\* C3's case: two workers have merged records of one key whose bounds differ.
InterleavingWitness ==
    /\ AllDone
    /\ thread_count >= 2
    /\ \E c \in DOMAIN outer_map :
          /\ c \in DOMAIN ChunkScan(chunk_size, 0).map
          /\ c \in DOMAIN ChunkScan(chunk_size, chunk_size).map
          /\ ChunkScan(chunk_size, 0).map[c].min # ChunkScan(chunk_size, chunk_size).map[c].min

\* C4: once every worker has merged, the shared map is the one a run with a
\* single worker thread (chunk_size = file_size, offset 0) ends with.
ThreadCountIndependence ==
    (AllDone /\ ChunkScan(file_size, 0).ok)
        => outer_map = MergeMap(EmptyMap, ChunkScan(file_size, 0).map)

\* C5: parse_float returns the value its text writes, and rendering that
\* value with one fractional digit gives the text back.
ParserRoundTrip ==
    /\ pf.pc \in {"parsed", "rendered"} => (pf.r.ok /\ pf.r.val = TextTenths(pf.x))
    /\ pf.pc = "rendered" => pf.txt = pf.x

\* C6 as claimed: the offsets the workers hold are pairwise distinct and are
\* the first multiples of chunk_size.
OffsetsDistinctAndExact ==
    /\ \A w1 \in Claimed : \A w2 \in Claimed : w1 # w2 => my_offset[w1] # my_offset[w2]
    /\ {my_offset[w] : w \in Claimed} = {k * chunk_size : k \in 0..(Cardinality(Claimed) - 1)}

\* C6 as amended: the offsets the workers hold are the first multiples of
\* chunk_size, the cursor is the next one, and they are pairwise distinct
\* whenever chunk_size >= 1.
OffsetsExact ==
    /\ {my_offset[w] : w \in Claimed} = {k * chunk_size : k \in 0..(Cardinality(Claimed) - 1)}
    /\ offset = Cardinality(Claimed) * chunk_size
    /\ chunk_size >= 1 =>
          \A w1 \in Claimed : \A w2 \in Claimed : w1 # w2 => my_offset[w1] # my_offset[w2]

\* C6's case: two workers have each done their fetch_add on a chunk_size >= 1.
OffsetsWitness ==
    /\ thread_count = 2
    /\ chunk_size >= 1
    /\ Claimed = Workers

\* C7: the local map of a scanned buffer, and the shared map after the single
\* worker of a one-thread run has merged, hold for every key the count, the
\* smallest, the largest and the total of the values written on its lines.
AggregationExact ==
    /\ \A w \in Workers : pc[w] = "scanned" => local_map[w] = WrittenMap(buf[w])
    /\ (thread_count = 1 /\ AllDone) => outer_map = WrittenMap(buf[1])

\* C8: with two or more workers, the read of the worker that holds the last
\* offset ends at file_size.
RemainderAbsorbed ==
    \A w \in Workers :
        (thread_count >= 2 /\ HasBuffer(w) /\ my_offset[w] = (thread_count - 1) * chunk_size)
            => read_req[w][1] + read_req[w][2] = file_size

\* C9: every positional read a worker issues ends at or before file_size.
NoReadPastEof ==
    \A w \in Workers :
        read_req[w] # <<>> => read_req[w][1] + read_req[w][2] <= file_size

\* C10: while some worker has panicked, no report line has been printed.
AllOrNothing ==
    (\E w \in Workers : pc[w] = "panicked") => out = <<>>

\* C10's case: a worker has panicked after another one merged its local map
\* into the shared map, and main has left the scope.
AllOrNothingWitness ==
    /\ \E w \in Workers : pc[w] = "panicked"
    /\ \E w \in Workers : pc[w] = "done"
    /\ outer_map # EmptyMap
    /\ pc_main = "panicked"

\* The workers inside the fold loop of lines 200-205.
Merging == {w \in Workers : pc[w] = "merging"}

\* C11: at most one worker is inside the merge fold loop and it is the holder
\* of the lock; the shared map changes only in a step of the worker that
\* holds the lock before and after it; and a worker leaves the fold loop only
\* with its whole local map folded in, to "done", so that it takes the lock
\* once.
MergeMutualExclusion ==
    /\ [](/\ Cardinality(Merging) <= 1
          /\ \A w \in Workers : (lock = w) <=> (pc[w] = "merging")
          /\ lock \in Workers \cup {0})
    /\ [][/\ outer_map' # outer_map
             => \E w \in Workers :
                   /\ lock = w /\ lock' = w
                   /\ pc[w] = "merging" /\ pc'[w] = "merging"
                   /\ local_map'[w] # local_map[w]
                   /\ \A v \in Workers \ {w} : local_map'[v] = local_map[v]
          /\ \A w \in Workers :
                /\ (pc[w] = "merging" /\ pc'[w] # "merging")
                      => (DOMAIN local_map[w] = {} /\ pc'[w] = "done" /\ lock' = 0)
                /\ (pc[w] # "merging" /\ pc'[w] = "merging")
                      => (pc[w] = "scanned" /\ lock = 0)]_vars

\* C11's case: one worker is folding its local map into a shared map that
\* already holds records, while another one has scanned and waits for the lock.
MergeMutualExclusionWitness ==
    \E w \in Workers : \E v \in Workers :
        /\ pc[w] = "merging" /\ lock = w
        /\ DOMAIN local_map[w] # {}
        /\ outer_map # EmptyMap
        /\ pc[v] = "scanned"

\* C12: while main is at the report or past it, and so whenever a report line
\* has been printed, every worker has merged, released the lock and ended;
\* and from the first printed line on, no step changes the shared map.
ReportOrdering ==
    /\ []((pc_main \in {"report", "exit"} \/ out # <<>>)
             => (lock = 0 /\ \A w \in Workers : pc[w] = "done" /\ DOMAIN local_map[w] = {}))
    /\ [][out # <<>> => outer_map' = outer_map]_vars

\* C12's case: two workers have merged and ended, and the report of a shared
\* map of two keys is being printed: one line is out, one is still to come.
ReportOrderingWitness ==
    /\ thread_count = 2
    /\ \A w \in Workers : pc[w] = "done"
    /\ pc_main = "report"
    /\ Len(out) = 1
    /\ Cardinality(DOMAIN outer_map) = 2

\* Byte-lexicographic order: a is a proper prefix of b, or at the first
\* position where they differ a has the smaller byte.
BytesBefore(a, b) ==
    \/ Len(a) < Len(b) /\ \A i \in 1..Len(a) : a[i] = b[i]
    \/ \E k \in 1..Min2(Len(a), Len(b)) :
          /\ \A i \in 1..(k - 1) : a[i] = b[i]
          /\ a[k] < b[k]

\* C13: when main has returned, the report has one line for each key of the
\* shared map and no other, each carrying that key's record, and the keys of
\* its lines are in strictly ascending byte-lexicographic order.
ReportShape ==
    pc_main = "exit" =>
        /\ Len(out) = Cardinality(DOMAIN outer_map)
        /\ {out[i].city : i \in 1..Len(out)} = DOMAIN outer_map
        /\ \A i \in 1..Len(out) : out[i] = ReportLine(out[i].city, outer_map[out[i].city])
        /\ \A i \in 1..Len(out) : \A j \in 1..Len(out) :
              i < j => BytesBefore(out[i].city, out[j].city)

\* C13's case: main has returned after printing a report of two keys.
ReportShapeWitness ==
    /\ pc_main = "exit"
    /\ Cardinality(DOMAIN outer_map) = 2
    /\ Len(out) = 2

\* ------------------------------------------ rows longer than the window
\* Files that also hold a row of 69 bytes (a key of 64), longer than the 63
\* bytes the boundary resolver assumes in front of every newline.
KeyX == [i \in 1..Window |-> 99]
OverlongLineKinds ==
    { KeyA \o <<Semi, 49, Dot, 53>>,
      KeyX \o <<Semi, 49, 50, Dot, 51>> }

OverlongFiles ==
    { FileOf(ls) : ls \in UNION { [1..n -> OverlongLineKinds] : n \in 0..MaxLines } }

InitOverlong ==
    /\ file \in OverlongFiles
    /\ thread_count \in 1..MaxThreads
    /\ overflow_checks \in BOOLEAN
    /\ file_size = Len(file)
    /\ chunk_size = file_size \div thread_count
    /\ offset = 0
    /\ outer_map = EmptyMap
    /\ lock = 0
    /\ pc = [w \in Workers |-> "spawned"]
    /\ my_offset = [w \in Workers |-> 0]
    /\ read_req = [w \in Workers |-> <<>>]
    /\ buf = [w \in Workers |-> <<>>]
    /\ buf_lo = [w \in Workers |-> 0]
    /\ local_map = [w \in Workers |-> EmptyMap]
    /\ pc_main = "scope"
    /\ out = <<>>
    /\ pf = [pc |-> "idle"]

SpecOverlong == InitOverlong /\ [][Next]_vars

\* The bytes worker w's positional read returned, and what is left of them
\* once the head of a non-first chunk is cut after its first newline.
ReadDone(w) ==
    /\ pc[w] \notin {"spawned", "claimed"}
    /\ read_req[w] # <<>>
    /\ read_req[w][1] + read_req[w][2] <= file_size

RawRead(w) == SubSeq(file, read_req[w][1] + 1, read_req[w][1] + read_req[w][2])

HeadHits(w) == {i \in 1..Min2(Window, Len(RawRead(w))) : RawRead(w)[i] = NL}

AfterHead(w) ==
    IF my_offset[w] = 0 \/ HeadHits(w) = {} THEN RawRead(w)
    ELSE SubSeq(RawRead(w), Minimum(HeadHits(w)) + 1, Len(RawRead(w)))

\* No newline among the 64 bytes in front of a non-zero offset.
HeadWindowFails(w) ==
    /\ my_offset[w] # 0
    /\ Len(RawRead(w)) >= Window
    /\ HeadHits(w) = {}

\* No newline among the 64 bytes in front of the buffer's last byte.
TailWindowFails(w) ==
    /\ Len(AfterHead(w)) >= Window + 1
    /\ \A i \in (Len(AfterHead(w)) - Window)..(Len(AfterHead(w)) - 1) : AfterHead(w)[i] # NL

\* C14: a worker whose head window or tail window holds no newline never
\* completes the scan of its buffer into a local map, nor merges it: it has
\* failed in read_file_chunk.
BoundaryFailureIsFatal ==
    \A w \in Workers :
        (ReadDone(w) /\ (HeadWindowFails(w) \/ TailWindowFails(w)))
            => pc[w] \notin {"scanned", "merging", "done"}

\* ---------------------------------------------- one turn of the scan loop
\* Lines as parse_row may be handed them, well-formed or not: the key "a" or
\* no key, then nothing, or a delimiter and a value of up to MaxValueLen bytes
\* drawn from '-', '1' and '.', then nothing or a second delimiter and a byte.
MaxValueLen == 6

ValueShapes == UNION { [1..n -> {Minus, 49, Dot}] : n \in 0..MaxValueLen }

Rows ==
    { KeyA \o v : v \in ValueShapes }
        \cup { k \o <<Semi>> \o v \o t :
                 k \in {<<>>, KeyA}, v \in ValueShapes, t \in {<<>>, <<Semi, 120>>} }

InitRow ==
    /\ pf \in { [pc |-> "row", line |-> l, map0 |-> m, map |-> m] :
                  l \in Rows, m \in {EmptyMap, KeyA :> Record_new(-990)} }
    /\ overflow_checks \in BOOLEAN
    /\ file = <<>>
    /\ thread_count = 0
    /\ file_size = 0
    /\ chunk_size = 0
    /\ offset = 0
    /\ outer_map = EmptyMap
    /\ lock = 0
    /\ pc = <<>>
    /\ my_offset = <<>>
    /\ read_req = <<>>
    /\ buf = <<>>
    /\ buf_lo = <<>>
    /\ local_map = <<>>
    /\ pc_main = "exit"
    /\ out = <<>>

\* lines 193-197: parse_row(line), then the entry of the local map.
ScanRow ==
    /\ pf.pc = "row"
    /\ LET row == parse_row(pf.line, overflow_checks)
       IN  pf' = IF row.ok
                 THEN [pf EXCEPT !.pc = "folded",
                                 !.map = Upsert(pf.map0, row.city, row.measurement)]
                 ELSE [pf EXCEPT !.pc = "panicked"]
    /\ UNCHANGED <<file, file_size, chunk_size, thread_count, overflow_checks, offset,
                   outer_map, lock, pc, my_offset, read_req, buf, buf_lo, local_map,
                   pc_main, out>>

NextRow == ScanRow

SpecRow == InitRow /\ [][NextRow]_vars

\* The delimiters of a line, what follows the first of them, and the part of
\* that up to the next delimiter.
SemiPos(l) == {i \in 1..Len(l) : l[i] = Semi}
AfterFirstSemi(l) == SubSeq(l, Minimum(SemiPos(l)) + 1, Len(l))
UpToSemi(v) == IF SemiPos(v) = {} THEN v ELSE SubSeq(v, 1, Minimum(SemiPos(v)) - 1)

\* (sign, byte-length) is (non-negative, 3), (non-negative, 4), (negative, 4)
\* or (negative, 5).
RecognisedLayout(v) ==
    /\ Len(v) >= 1
    /\ \/ v[1] # Minus /\ Len(v) \in {3, 4}
       \/ v[1] = Minus /\ Len(v) \in {4, 5}

RowScanned == pf.pc \in {"folded", "panicked"}
RowFatal == pf.pc = "panicked" /\ pf.map = pf.map0

WholeLinesOnly ==
    \A w \in Workers :
        HasBuffer(w) =>
            /\ buf_lo[w] \in {l[1] : l \in FileLines}
            /\ buf_lo[w] + Len(buf[w]) \in NewlinePos
            /\ buf_lo[w] < buf_lo[w] + Len(buf[w])
            /\ buf[w] = SubSeq(file, buf_lo[w] + 1, buf_lo[w] + Len(buf[w]))

\* The nominal start offsets, other than 0, at which the file has a newline.
NewlineOffsets ==
    {o \in {k * chunk_size : k \in 1..(thread_count - 1)} : o \in NewlinePos}

Holders(line) == {w \in Workers : Covers(w, line)}

RecordsSound(m) == \A c \in DOMAIN m : m[c].count >= 1 /\ m[c].min <= m[c].max

\* C18: every record in a worker's local map or in the shared map has
\* count >= 1 and min <= max.
RecordInvariant ==
    /\ RecordsSound(outer_map)
    /\ \A w \in Workers : RecordsSound(local_map[w])

\* C18's case: a record of the shared map that Record::merge has made from the
\* records of two workers, one of them made by Record::new and Record::update,
\* with bounds that differ.
RecordInvariantWitness ==
    \E v \in Workers : \E c \in DOMAIN outer_map :
        /\ pc[v] = "done"
        /\ c \in DOMAIN scan_chunk(buf[v], overflow_checks).map
        /\ outer_map[c].count > scan_chunk(buf[v], overflow_checks).map[c].count
        /\ outer_map[c].count >= 3
        /\ outer_map[c].min < outer_map[c].max

\* Nothing more can happen: every worker has ended, or waits for a lock that
\* is held, and main has returned, has panicked, or waits for a worker.
WorkerStopped(w) == pc[w] \in {"done", "panicked"} \/ (pc[w] = "scanned" /\ lock # 0)
MainStopped ==
    \/ pc_main \in {"exit", "panicked"}
    \/ pc_main = "scope" /\ \E w \in Workers : pc[w] \notin {"done", "panicked"}
Stopped == MainStopped /\ \A w \in Workers : WorkerStopped(w)

\* C19: on a file of one or more whole rows, a run stops only when every
\* worker has done its fetch_add, its scan and its merge and has ended with
\* the lock released, and main has printed the whole report and returned; no
\* run stops with a worker waiting for the lock or ended by a panic.
RunToCompletion ==
    (file # <<>> /\ Stopped) =>
        /\ \A w \in Workers : pc[w] = "done"
        /\ lock = 0
        /\ pc_main = "exit"
        /\ Len(out) = Cardinality(DOMAIN outer_map)

\* C20: with chunk_size >= 65, for every worker that has gone through
\* read_file_chunk: a non-zero offset is at least 64 (offset - 64 >= 0), the
\* read lies inside the file, the head scan stays inside the bytes read, and
\* after the head trim the buffer has at least 65 bytes (tail_i - 64 >= 0).
IndexArithmeticInRange ==
    chunk_size >= Window + 1 =>
        \A w \in Workers :
            pc[w] \notin {"spawned", "claimed"} =>
                /\ my_offset[w] # 0 => my_offset[w] >= Window
                /\ ReadDone(w)
                /\ my_offset[w] # 0 => (HeadHits(w) # {} \/ Len(RawRead(w)) >= Window)
                /\ Len(AfterHead(w)) >= Window + 1

====
